---- MODULE Spec2Model ----
(***************************************************************************)
(* Status / retry state machine of the semantic-layer enrichment pipeline. *)
(*                                                                         *)
(* The metadata store holds one item per table with three status axes      *)
(* (enrichment, relationship detection, Neptune import), a retry counter   *)
(* and an error text per axis.  The item is written by                     *)
(*   - MetadataGenerator.generate_metadata_for_table (API, setup script),  *)
(*   - the background coroutine detect_and_store_relationships,            *)
(*   - the cron worker scripts/worker_auto_completion.py,                  *)
(*   - the manual scripts retry_neptune_import.py and                      *)
(*     test_relationships_manual.py.                                       *)
(* Timestamps, row counts and schema status are not modelled: no guard of  *)
(* the state machine reads them.  Store calls are taken to succeed.        *)
(***************************************************************************)
EXTENDS Integers, FiniteSets, Sequences, TLC

\* ---------------------------------------------------------------- constants

\* worker_auto_completion.py: MAX_RETRIES = 3
MAX_RETRIES == 3

\* worker_auto_completion.py: str(e)[:500]
ERROR_LIMIT == 500

\* ------------------------------------------------------------------- bounds

\* Detection coroutines alive at the same time.
MaxTasks == 2

\* Retry counters are followed up to this value (one past MAX_RETRIES + 1).
MaxCount == 5

\* Tables whose pipeline is followed, columns of a warehouse table, lengths of
\* exception texts, concurrently running invocations of the cron worker.
Tables == {"t1"}
ColNames == {"c1", "c2"}
ErrLens == {40, 700}
Workers == {"w1", "w2"}

\* -------------------------------------------------------------------- state

VARIABLES
    item,        \* table-metadata store: one item per table (or no item)
    columns,     \* column-metadata store: the column records of each table
    tasks,       \* detect_and_store_relationships coroutines: count per (table, position)
    worker,      \* invocations of the cron worker: position, table, locals
    gen_ret,     \* last return value of generate_metadata_for_table
    streak,      \* history: consecutive failed runs per table and axis
    det,         \* RelationshipDetector.find_relationships: the run in progress
    relationships, \* table_relationships store: the items put so far
    naming,      \* AliasGenerator: the generate_aliases / generate_description call
    graph,       \* Neptune graph: the nodes and edges created so far
    export,      \* NeptuneAnalyticsService.import_table_to_neptune: the call in progress
    padding,     \* pad_embedding_to_2048: the vectors given and returned
    geo,         \* GeographicDetector: the geocoding cache and the call in progress
    classified,  \* ColumnTypeDetector.detect_column_type: the call made
    multi        \* generate_metadata_for_all_tables: the call in progress

\* The status pipeline and the services it calls.
pipeline == <<item, columns, tasks, worker, gen_ret, streak>>
later == <<graph, export, padding, geo, classified, multi>>
services == <<det, relationships, naming, later>>

vars == <<item, columns, tasks, worker, gen_ret, streak, det, relationships, naming,
          graph, export, padding, geo, classified, multi>>

\* Python None
None == -1

Axes == {"enrichment", "relationship", "neptune"}

\* models/table.py: EnrichmentStatus, RelationshipDetectionStatus
EnrichmentStatus == {"not_started", "in_progress", "completed", "failed"}
RelationshipDetectionStatus == {"not_started", "in_progress", "completed", "failed"}
\* models/table.py: NeptuneImportStatus
NeptuneImportStatus == {"not_imported", "importing", "imported", "failed"}

\* models/table.py: TableMetadata with its field defaults, as save_table_metadata
\* writes it (present |-> TRUE: the item exists in the store).
TableMetadata ==
    [present |-> TRUE,
     enrichment_status |-> "not_started",
     relationship_detection_status |-> "not_started",
     neptune_import_status |-> "not_imported",
     enrichment_retry_count |-> 0,
     relationship_retry_count |-> 0,
     neptune_retry_count |-> 0,
     enrichment_error |-> None,
     relationship_error |-> None,
     neptune_import_error |-> None]

\* get_item finds nothing: get_table_metadata returns None.
NoItem == [TableMetadata EXCEPT !.present = FALSE]

\* dynamodb.py: get_table_metadata
get_table_metadata(t) == item[t]

\* dynamodb.py: get_all_table_identifiers
get_all_table_identifiers == {t \in Tables : item[t].present}

\* dynamodb.py: get_all_columns_for_table
get_all_columns_for_table(t) == columns[t]

\* DynamoDB update_item with a SET of the given attributes: a field-level update
\* that leaves every other attribute of the item as it is.
update_item(it, fields) ==
    [f \in DOMAIN it |-> IF f \in DOMAIN fields THEN fields[f] ELSE it[f]]

\* dynamodb.py: update_relationship_detection_status sets the status only
update_relationship_detection_status(it, status) ==
    update_item(it, [relationship_detection_status |-> status])

\* str(e)[:500]
Truncate(len) == IF len > ERROR_LIMIT THEN ERROR_LIMIT ELSE len

\* --------------------------------------------------- history of failed runs

\* A run of an axis ended by recording a failure / ended well / the item was
\* written anew by save_table_metadata.
StreakFail(t, a) ==
    [streak EXCEPT ![t][a] = IF @ < MAX_RETRIES THEN @ + 1 ELSE @]
StreakOk(t, a) == [streak EXCEPT ![t][a] = 0]
StreakNew(t) == [streak EXCEPT ![t] = [a \in Axes |-> 0]]

\* ------------------------------------------- detect_and_store_relationships

TaskPcs == {"step0", "loading", "detecting"}

NumTasks ==
    LET n(t) == tasks[t]["step0"] + tasks[t]["loading"] + tasks[t]["detecting"]
        RECURSIVE Sum(_)
        Sum(S) == IF S = {} THEN 0
                  ELSE LET x == CHOOSE y \in S : TRUE IN n(x) + Sum(S \ {x})
    IN Sum(Tables)

\* loop.create_task(detect_and_store_relationships(...)) / asyncio.run(...)
create_task(t) == [tasks EXCEPT ![t]["step0"] = @ + 1]
\* the coroutine moves on / returns
TaskMove(t, from, to) == [tasks EXCEPT ![t][from] = @ - 1, ![t][to] = @ + 1]
TaskReturn(t, from) == [tasks EXCEPT ![t][from] = @ - 1]

\* Step 0: the status is set to IN_PROGRESS, whatever it was.
DetectStart(t) ==
    /\ tasks[t]["step0"] > 0
    /\ item' = [item EXCEPT ![t] =
                   update_relationship_detection_status(@, "in_progress")]
    /\ tasks' = TaskMove(t, "step0", "loading")
    /\ UNCHANGED <<columns, worker, gen_ret, streak, services>>

\* Step 1: no column metadata for the table: status back to NOT_STARTED,
\* return "skipped".
DetectNoMetadata(t) ==
    /\ tasks[t]["loading"] > 0
    /\ get_all_columns_for_table(t) = {}
    /\ item' = [item EXCEPT ![t] =
                   update_relationship_detection_status(@, "not_started")]
    /\ tasks' = TaskReturn(t, "loading")
    /\ UNCHANGED <<columns, worker, gen_ret, streak, services>>

\* Steps 2-3: no other table in the catalog, or none with column metadata:
\* return "skipped"; the status is not written.  The tables whose pipeline is
\* not followed here are the input `others`: how many of them the catalog
\* holds with column metadata.
DetectNoExistingTables(t) ==
    /\ tasks[t]["loading"] > 0
    /\ get_all_columns_for_table(t) # {}
    /\ \E others \in {0} :
          {x \in get_all_table_identifiers \ {t} :
              get_all_columns_for_table(x) # {}} = {} /\ others = 0
    /\ tasks' = TaskReturn(t, "loading")
    /\ UNCHANGED <<item, columns, worker, gen_ret, streak, services>>

\* Steps 1-3 load the metadata of the table and of the other tables.
DetectLoaded(t) ==
    /\ tasks[t]["loading"] > 0
    /\ get_all_columns_for_table(t) # {}
    /\ \E others \in {0, 1} :
          {x \in get_all_table_identifiers \ {t} :
              get_all_columns_for_table(x) # {}} # {} \/ others > 0
    /\ tasks' = TaskMove(t, "loading", "detecting")
    /\ UNCHANGED <<item, columns, worker, gen_ret, streak, services>>

\* Steps 4-5: find_relationships or store_relationships_batch raises: the inner
\* handlers return "error"; the status is not written.
DetectInnerError(t) ==
    /\ tasks[t]["detecting"] > 0
    /\ tasks' = TaskReturn(t, "detecting")
    /\ UNCHANGED <<item, columns, worker, gen_ret, streak, services>>

\* Steps 4-5 succeed: status COMPLETED, return "success".
DetectCompleted(t) ==
    /\ tasks[t]["detecting"] > 0
    /\ item' = [item EXCEPT ![t] =
                   update_relationship_detection_status(@, "completed")]
    /\ tasks' = TaskReturn(t, "detecting")
    /\ streak' = StreakOk(t, "relationship")
    /\ UNCHANGED <<columns, worker, gen_ret, services>>

\* Any other exception after Step 0: the outer handler sets FAILED and returns
\* "error".
DetectFailed(t) ==
    /\ \E pc \in {"loading", "detecting"} :
          /\ tasks[t][pc] > 0
          /\ tasks' = TaskReturn(t, pc)
    /\ item' = [item EXCEPT ![t] =
                   update_relationship_detection_status(@, "failed")]
    /\ streak' = StreakFail(t, "relationship")
    /\ UNCHANGED <<columns, worker, gen_ret, services>>

\* backend/test_relationships_manual.py: asyncio.run(detect_and_store_relationships(...))
\* for "a table that already has metadata".
ManualDetect(t) ==
    /\ item[t].present
    /\ NumTasks < MaxTasks
    /\ tasks' = create_task(t)
    /\ UNCHANGED <<item, columns, worker, gen_ret, streak, services>>

\* ------------------------------- MetadataGenerator.generate_metadata_for_table

\* dynamodb.py: save_table_metadata: put_item replaces the whole item by the
\* fields of the TableMetadata object it is given.
save_table_metadata(t, table_metadata) == [item EXCEPT ![t] = table_metadata]

\* not force_refresh and the table has an item: "Metadata already exists",
\* return True.
GenerateExisting(t) ==
    /\ item[t].present
    /\ gen_ret' = "True"
    /\ UNCHANGED <<item, columns, tasks, worker, streak, services>>

\* How generate_metadata_for_table is reached:
\*   "generate": force_refresh=False (API, setup script),
\*   "force":    force_refresh=True  (API, setup script),
\*   "refresh":  refresh_metadata_for_table, which first deletes the table's
\*               column records (delete_all_columns_for_table) and then calls
\*               it with force_refresh=True.
Modes == {"generate", "force", "refresh"}

\* The column records generation starts from.
ColumnsBefore(t, mode) == IF mode = "refresh" THEN {} ELSE columns[t]

\* As below, with the check for existing metadata left out.
Regenerates_always(t, mode) == TRUE

\* "Check if metadata already exists" is passed.
Regenerates(t, mode) == mode # "generate" \/ ~item[t].present

\* The schema is empty (return False) or a warehouse call raises before the
\* first column is saved (the handler returns False).
GenerateNoSchema(t, mode) ==
    /\ Regenerates(t, mode)
    /\ columns' = [columns EXCEPT ![t] = ColumnsBefore(t, mode)]
    /\ gen_ret' = "False"
    /\ UNCHANGED <<item, tasks, worker, streak, services>>

\* An exception while the columns are processed: the columns saved so far stay,
\* the handler returns False.
GenerateRaise(t, mode) ==
    /\ Regenerates(t, mode)
    /\ \E saved \in SUBSET ColNames \ {{}} :
          columns' = [columns EXCEPT ![t] = ColumnsBefore(t, mode) \cup saved]
    /\ gen_ret' = "False"
    /\ UNCHANGED <<item, tasks, worker, streak, services>>

\* Steps 1-6 succeed: every column of the schema is saved, the table item is
\* saved from a new TableMetadata, the detection task is started, return True.
GenerateOkSchema(t, mode, table_schema) ==
    /\ Regenerates(t, mode)
    /\ NumTasks < MaxTasks
    /\ columns' = [columns EXCEPT ![t] = ColumnsBefore(t, mode) \cup table_schema]
    /\ item' = save_table_metadata(t, TableMetadata)
    /\ tasks' = create_task(t)
    /\ gen_ret' = "True"
    /\ streak' = StreakNew(t)
    /\ UNCHANGED <<worker, services>>

\* The warehouse returns some non-empty schema for the table.
GenerateOk(t, mode) ==
    \E table_schema \in SUBSET ColNames \ {{}} : GenerateOkSchema(t, mode, table_schema)

\* ----------------------------------------- scripts/worker_auto_completion.py

\* should_process_enrichment(table_metadata)
should_process_enrichment(table_metadata) ==
    IF table_metadata.enrichment_status = "in_progress" THEN FALSE
    ELSE IF table_metadata.enrichment_retry_count >= MAX_RETRIES THEN FALSE
    ELSE table_metadata.enrichment_status \in {"not_started", "failed"}

\* should_process_relationships(table_metadata)
should_process_relationships(table_metadata) ==
    IF table_metadata.enrichment_status # "completed" THEN FALSE
    ELSE IF table_metadata.relationship_detection_status = "in_progress" THEN FALSE
    ELSE IF table_metadata.relationship_retry_count >= MAX_RETRIES THEN FALSE
    ELSE table_metadata.relationship_detection_status \in {"not_started", "failed"}

\* should_process_neptune(table_metadata)
should_process_neptune(table_metadata) ==
    IF table_metadata.enrichment_status # "completed" THEN FALSE
    ELSE IF table_metadata.neptune_import_status = "importing" THEN FALSE
    ELSE IF table_metadata.neptune_retry_count >= MAX_RETRIES THEN FALSE
    ELSE table_metadata.neptune_import_status \in {"not_imported", "failed"}

\* dynamodb_service.update_table_metadata_field(table, field, value) and
\* update_table_metadata_fields(table, {field: value}): called by the worker;
\* the field-level update of the store interface.
update_table_metadata_fields(it, fields) == update_item(it, fields)

\* A worker invocation that is not inside process_table.
Idle == [pc |-> "idle", table |-> "none", relationships |-> FALSE,
         neptune |-> FALSE, new_retry_count |-> 0, error |-> None]

\* process_table after the enrichment check: the two remaining checks are made
\* on the table_metadata read last.
AfterEnrichment(t, table_metadata) ==
    IF should_process_relationships(table_metadata)
      THEN [Idle EXCEPT !.table = t, !.pc = "relationships_in_progress",
                        !.relationships = TRUE,
                        !.neptune = should_process_neptune(table_metadata)]
    ELSE IF should_process_neptune(table_metadata)
      THEN [Idle EXCEPT !.table = t, !.pc = "neptune_importing",
                        !.neptune = TRUE]
    ELSE Idle

\* process_table after process_relationships.
AfterRelationships(w) ==
    IF worker[w].neptune
      THEN [Idle EXCEPT !.table = worker[w].table, !.pc = "neptune_importing",
                        !.neptune = TRUE]
      ELSE Idle

\* main(): get_all_tables() returns TableSummary objects, which have no
\* *_retry_count field; with no table main returns, with one the first log line
\* of the loop raises AttributeError, main's handler logs it and exits with 1.
\* process_table is not reached and the store is not written.
main(w) ==
    /\ worker[w].pc = "idle"
    /\ UNCHANGED vars

\* process_table(table_metadata) with the TableMetadata of a stored table.
process_table(w, t) ==
    /\ worker[w].pc = "idle"
    /\ item[t].present
    /\ LET table_metadata == get_table_metadata(t) IN
         worker' = [worker EXCEPT ![w] =
            IF should_process_enrichment(table_metadata)
              THEN [Idle EXCEPT !.table = t, !.pc = "enrichment_in_progress"]
              ELSE AfterEnrichment(t, table_metadata)]
    /\ UNCHANGED <<item, columns, tasks, gen_ret, streak, services>>

\* process_enrichment: "Update status to IN_PROGRESS"
EnrichmentInProgress(w) ==
    /\ worker[w].pc = "enrichment_in_progress"
    /\ item' = [item EXCEPT ![worker[w].table] =
          update_table_metadata_fields(@, [enrichment_status |-> "in_progress"])]
    /\ worker' = [worker EXCEPT ![w].pc = "enrichment_run"]
    /\ UNCHANGED <<columns, tasks, gen_ret, streak, services>>

\* metadata_generator.generate_metadata(catalog, schema, table): called by the
\* worker; the enrichment run, which returns or raises.
generate_metadata == {"returns", "raises"}

\* process_enrichment: the run returns: "Update status to COMPLETED"
EnrichmentCompleted(w) ==
    /\ worker[w].pc = "enrichment_run"
    /\ "returns" \in generate_metadata
    /\ item' = [item EXCEPT ![worker[w].table] =
          update_table_metadata_fields(@,
              [enrichment_status |-> "completed", enrichment_error |-> None])]
    /\ worker' = [worker EXCEPT ![w].pc = "refresh"]
    /\ streak' = StreakOk(worker[w].table, "enrichment")
    /\ UNCHANGED <<columns, tasks, gen_ret, services>>

\* process_enrichment: the run raises: "Get current retry count"
EnrichmentExcept(w) ==
    /\ worker[w].pc = "enrichment_run"
    /\ "raises" \in generate_metadata
    /\ LET table_metadata == get_table_metadata(worker[w].table) IN
       \E len \in ErrLens :
         /\ table_metadata.enrichment_retry_count + 1 <= MaxCount
         /\ worker' = [worker EXCEPT
               ![w].pc = "enrichment_failed",
               ![w].new_retry_count =
                   (IF table_metadata.present
                      THEN table_metadata.enrichment_retry_count ELSE 0) + 1,
               ![w].error = Truncate(len)]
    /\ UNCHANGED <<item, columns, tasks, gen_ret, streak, services>>

\* process_enrichment: "Update status to FAILED and increment retry count"
EnrichmentFailed(w) ==
    /\ worker[w].pc = "enrichment_failed"
    /\ item' = [item EXCEPT ![worker[w].table] =
          update_table_metadata_fields(@,
              [enrichment_status |-> "failed",
               enrichment_retry_count |-> worker[w].new_retry_count,
               enrichment_error |-> worker[w].error])]
    /\ worker' = [worker EXCEPT ![w].pc = "refresh",
                                ![w].new_retry_count = 0, ![w].error = None]
    /\ streak' = StreakFail(worker[w].table, "enrichment")
    /\ UNCHANGED <<columns, tasks, gen_ret, services>>

\* process_table: "Refresh metadata after enrichment"
RefreshMetadata(w) ==
    /\ worker[w].pc = "refresh"
    /\ LET table_metadata == get_table_metadata(worker[w].table) IN
         worker' = [worker EXCEPT ![w] =
            IF table_metadata.present
              THEN AfterEnrichment(worker[w].table, table_metadata)
              ELSE Idle]
    /\ UNCHANGED <<item, columns, tasks, gen_ret, streak, services>>

\* process_relationships: "Update status to IN_PROGRESS", then
\* start_relationship_detection_task(catalog_schema_table): the function takes
\* four required arguments (table_identifier, catalog, schema, table_name), so
\* the call raises TypeError before any task is created and control goes to
\* the handler of process_relationships.
RelationshipsInProgress(w) ==
    /\ worker[w].pc = "relationships_in_progress"
    /\ item' = [item EXCEPT ![worker[w].table] =
          update_table_metadata_fields(@,
              [relationship_detection_status |-> "in_progress"])]
    /\ worker' = [worker EXCEPT ![w].pc = "relationships_except",
                                ![w].relationships = FALSE]
    /\ UNCHANGED <<columns, tasks, gen_ret, streak, services>>

\* process_relationships: handler: "Get current retry count"
RelationshipsExcept(w) ==
    /\ worker[w].pc = "relationships_except"
    /\ LET table_metadata == get_table_metadata(worker[w].table) IN
       \E len \in {l \in ErrLens : l <= ERROR_LIMIT} :
         /\ table_metadata.relationship_retry_count + 1 <= MaxCount
         /\ worker' = [worker EXCEPT
               ![w].pc = "relationships_failed",
               ![w].new_retry_count =
                   (IF table_metadata.present
                      THEN table_metadata.relationship_retry_count ELSE 0) + 1,
               ![w].error = Truncate(len)]
    /\ UNCHANGED <<item, columns, tasks, gen_ret, streak, services>>

\* process_relationships: "Update status to FAILED and increment retry count"
RelationshipsFailed(w) ==
    /\ worker[w].pc = "relationships_failed"
    /\ item' = [item EXCEPT ![worker[w].table] =
          update_table_metadata_fields(@,
              [relationship_detection_status |-> "failed",
               relationship_retry_count |-> worker[w].new_retry_count,
               relationship_error |-> worker[w].error])]
    /\ worker' = [worker EXCEPT ![w] = AfterRelationships(w)]
    /\ streak' = StreakFail(worker[w].table, "relationship")
    /\ UNCHANGED <<columns, tasks, gen_ret, services>>

\* process_neptune_import: "Update status to IMPORTING"
NeptuneImporting(w) ==
    /\ worker[w].pc = "neptune_importing"
    /\ item' = [item EXCEPT ![worker[w].table] =
          update_table_metadata_fields(@, [neptune_import_status |-> "importing"])]
    /\ worker' = [worker EXCEPT ![w].pc = "neptune_run", ![w].neptune = FALSE]
    /\ UNCHANGED <<columns, tasks, gen_ret, streak, services>>

\* neptune_service.py: import_table_to_neptune returns False when the table has
\* no item or no column records, or when a graph-store call fails; else True.
import_table_to_neptune(t) ==
    IF ~get_table_metadata(t).present \/ get_all_columns_for_table(t) = {}
      THEN {FALSE}
      ELSE {FALSE, TRUE}

\* process_neptune_import: the import returns True: "Update status to IMPORTED"
NeptuneImported(w) ==
    /\ worker[w].pc = "neptune_run"
    /\ TRUE \in import_table_to_neptune(worker[w].table)
    /\ item' = [item EXCEPT ![worker[w].table] =
          update_table_metadata_fields(@,
              [neptune_import_status |-> "imported",
               neptune_import_error |-> None])]
    /\ worker' = [worker EXCEPT ![w] = Idle]
    /\ streak' = StreakOk(worker[w].table, "neptune")
    /\ UNCHANGED <<columns, tasks, gen_ret, services>>

\* process_neptune_import: the import returns False, which is raised as
\* Exception("Neptune import returned False"): "Get current retry count"
NeptuneExcept(w) ==
    /\ worker[w].pc = "neptune_run"
    /\ FALSE \in import_table_to_neptune(worker[w].table)
    /\ LET table_metadata == get_table_metadata(worker[w].table) IN
       \E len \in {l \in ErrLens : l <= ERROR_LIMIT} :
         /\ table_metadata.neptune_retry_count + 1 <= MaxCount
         /\ worker' = [worker EXCEPT
               ![w].pc = "neptune_failed",
               ![w].new_retry_count =
                   (IF table_metadata.present
                      THEN table_metadata.neptune_retry_count ELSE 0) + 1,
               ![w].error = Truncate(len)]
    /\ UNCHANGED <<item, columns, tasks, gen_ret, streak, services>>

\* process_neptune_import: "Update status to FAILED and increment retry count"
NeptuneFailed(w) ==
    /\ worker[w].pc = "neptune_failed"
    /\ item' = [item EXCEPT ![worker[w].table] =
          update_table_metadata_fields(@,
              [neptune_import_status |-> "failed",
               neptune_retry_count |-> worker[w].new_retry_count,
               neptune_import_error |-> worker[w].error])]
    /\ worker' = [worker EXCEPT ![w] = Idle]
    /\ streak' = StreakFail(worker[w].table, "neptune")
    /\ UNCHANGED <<columns, tasks, gen_ret, services>>

\* ------------------------------------------------------------ AliasGenerator

\* Parts of a column name between underscores: a plain word, the
\* abbreviations id and km, and h24x7, which expands to two words.
Parts == {"road", "id", "km", "h24x7"}

\* Longest column name, in parts.
MaxParts == 7

\* alias_generator.py: len(alias.split()) <= 6 and unique_aliases[:5]
MaxAliasWords == 6
MaxAliases == 5

\* Column names: one or two parts of any kind, then plain words.
ColumnNames ==
    {head \o [i \in 1..k |-> "road"] :
        head \in [1..1 -> Parts] \cup [1..2 -> Parts], k \in 0..(MaxParts - 2)}

\* Tag lists and data types a column can come with.
TagSets == {{}, {"country"}}
DataTypes == {"varchar", "timestamp"}

\* What a call of a model stage can do: raise, or return a list of so many
\* aliases / a description of so many characters.
AliasOutcomes == {"raises", "0", "1", "3"}
DescriptionOutcomes == {"raises", "0", "20", "21"}

\* No call of the naming generator in progress.  After __init__ the local
\* models are not loaded (alias_model = description_model = None).
\* attempted and outcomes are history: the stages called and what each did.
NoCall ==
    [pc |-> "idle", kind |-> "none", azure_available |-> FALSE,
     alias_model |-> FALSE, column_name |-> <<>>, data_type |-> "none",
     tags |-> {}, attempted |-> <<>>, outcomes |-> <<>>,
     aliases |-> <<>>, description |-> ""]

\* generate_aliases or generate_description is called for a column; whether
\* the import of the Azure generator succeeded in __init__ is an input.
NamingCall ==
    /\ naming.pc = "idle"
    /\ \E kind \in {"aliases", "description"}, azure_available \in BOOLEAN,
          column_name \in ColumnNames, data_type \in DataTypes,
          tags \in TagSets :
         naming' = [NoCall EXCEPT !.pc = "primary", !.kind = kind,
                                  !.azure_available = azure_available,
                                  !.column_name = column_name,
                                  !.data_type = data_type, !.tags = tags]
    /\ UNCHANGED <<pipeline, det, relationships, later>>

\* The aliases a model stage returns: n aliases of one word each.
AiAliases(n) == [i \in 1..n |-> <<"AI", i>>]

\* "Try Azure OpenAI GPT-5 first": the result is returned when it is a
\* non-empty alias list / a description of more than 20 characters.
PrimaryStage ==
    /\ naming.pc = "primary"
    /\ IF ~naming.azure_available
         THEN naming' = [naming EXCEPT !.pc = "secondary"]
       ELSE IF naming.kind = "aliases"
         THEN \E o \in AliasOutcomes :
                naming' = [naming EXCEPT
                   !.attempted = Append(@, "primary"),
                   !.outcomes = Append(@, o),
                   !.pc = IF o \in {"1", "3"} THEN "returned" ELSE "secondary",
                   !.aliases = IF o = "1" THEN AiAliases(1)
                               ELSE IF o = "3" THEN AiAliases(3) ELSE @]
       ELSE \E o \in DescriptionOutcomes :
                naming' = [naming EXCEPT
                   !.attempted = Append(@, "primary"),
                   !.outcomes = Append(@, o),
                   !.pc = IF o = "21" THEN "returned" ELSE "secondary",
                   !.description = IF o = "21" THEN "ai" ELSE @]
    /\ UNCHANGED <<pipeline, det, relationships, later>>

\* "Try HuggingFace AI generation as fallback": entered only when the local
\* model is already loaded; the result is returned when it has two aliases or
\* more / more than 20 characters.
SecondaryStage ==
    /\ naming.pc = "secondary"
    /\ IF ~naming.alias_model
         THEN naming' = [naming EXCEPT !.pc = "rule"]
       ELSE IF naming.kind = "aliases"
         THEN \E o \in AliasOutcomes :
                naming' = [naming EXCEPT
                   !.attempted = Append(@, "secondary"),
                   !.outcomes = Append(@, o),
                   !.pc = IF o = "3" THEN "returned" ELSE "rule",
                   !.aliases = IF o = "3" THEN AiAliases(3) ELSE @]
       ELSE \E o \in DescriptionOutcomes :
                naming' = [naming EXCEPT
                   !.attempted = Append(@, "secondary"),
                   !.outcomes = Append(@, o),
                   !.pc = IF o = "21" THEN "returned" ELSE "rule",
                   !.description = IF o = "21" THEN "ai" ELSE @]
    /\ UNCHANGED <<pipeline, det, relationships, later>>

\* self.abbreviations[part_lower], else part.capitalize(): the words a part
\* of the column name expands to.
Expand(part) ==
    CASE part = "id" -> <<"ID">>
      [] part = "km" -> <<"Kilometers">>
      [] part = "h24x7" -> <<"24/7", "Hours">>
      [] OTHER -> <<"Road">>

\* ' '.join(expanded_parts), as the sequence of its words.
RECURSIVE base_alias(_)
base_alias(column_name) ==
    IF column_name = <<>> THEN <<>>
    ELSE Expand(Head(column_name)) \o base_alias(Tail(column_name))

\* 'pvid' in col_lower or '_id' in col_lower or col_lower.endswith('id')
IdPattern(column_name) ==
    \E i \in 1..Len(column_name) :
       column_name[i] = "id" /\ (i > 1 \/ i = Len(column_name))

\* "Remove duplicates while preserving order" and keep the aliases of at most
\* six words.
RECURSIVE unique_aliases(_, _)
unique_aliases(aliases, seen) ==
    IF aliases = <<>> THEN <<>>
    ELSE IF Head(aliases) \notin seen /\ Len(Head(aliases)) <= MaxAliasWords
      THEN <<Head(aliases)>> \o unique_aliases(Tail(aliases), seen \cup {Head(aliases)})
    ELSE unique_aliases(Tail(aliases), seen)

\* _generate_aliases_rule_based(column_name, data_type, tags)
generate_aliases_rule_based(column_name, tags) ==
    LET base == base_alias(column_name)
        aliases ==
            <<base>>
            \o (IF IdPattern(column_name) THEN <<base, base>> ELSE <<>>)
            \o (IF \E i \in 1..Len(column_name) : column_name[i] = "km"
                  THEN << <<"Distance", "(km)">>,
                          <<"Length", "in", "Kilometers">>,
                          <<"Total", "Distance">> >>
                  ELSE <<>>)
            \o (IF "country" \in tags
                  THEN << <<"Country", "Name">>, <<"Nation">>,
                          <<"Country", "Code">> >>
                  ELSE <<>>)
        unique == unique_aliases(aliases, {})
    IN SubSeq(unique, 1, IF Len(unique) < MaxAliases THEN Len(unique) ELSE MaxAliases)

\* _generate_description_template_based(column_name, data_type, tags,
\* cardinality): the template the description is built from.
generate_description_template_based(column_name, data_type, tags) ==
    IF \E i \in 2..Len(column_name) : column_name[i] = "id"
      THEN "Unique identifier for the {column_name} entity."
    ELSE IF "country" \in tags
      THEN "Country name or ISO country code identifying the nation where the record applies."
    ELSE IF \E i \in 1..Len(column_name) : column_name[i] = "km"
      THEN "Total distance or length measured in kilometers."
    ELSE IF data_type = "timestamp"
      THEN "Date and time value for {column_name}."
    ELSE "{human_name} value stored as {data_type}."

\* "Fallback to rule-based" / "Fallback to template-based"
RuleStage ==
    /\ naming.pc = "rule"
    /\ naming' = [naming EXCEPT
          !.attempted = Append(@, "rule"),
          !.outcomes = Append(@, "returns"),
          !.pc = "returned",
          !.aliases = IF naming.kind = "aliases"
                        THEN generate_aliases_rule_based(naming.column_name,
                                                         naming.tags)
                        ELSE @,
          !.description = IF naming.kind = "description"
                            THEN generate_description_template_based(
                                    naming.column_name, naming.data_type,
                                    naming.tags)
                            ELSE @]
    /\ UNCHANGED <<pipeline, det, relationships, later>>

\* ------------------------------------- RelationshipDetector.find_relationships

\* relationship_detector.py: self.source_batch_size = 20
source_batch_size == 20

\* relationship_tasks.py: confidence_threshold=0.6, in hundredths
confidence_threshold == 60

\* Tables of the catalog a detection run can see, numbers of columns of the
\* source table, confidences (in hundredths) the model puts on a proposal.
AllTables == {"A", "B", "C"}
ColCounts == {1, 20, 21, 41}
Confidences == {50, 60, 90}

\* Sequences without repetition over a set, of length 1..Cardinality(S).
RECURSIVE Orderings(_)
Orderings(S) ==
    IF S = {} THEN {<<>>}
    ELSE UNION {{<<x>> \o o : o \in Orderings(S \ {x})} : x \in S}

\* What get_all_table_identifiers can return: the tables with an item, in the
\* order of the scan.
TableLists == UNION {Orderings(S) : S \in SUBSET AllTables \ {{}}}

\* The content of a model response: text that is not JSON, or a JSON object
\* whose "relationships" list holds proposals (here: their confidences).
Contents ==
    {[json |-> FALSE, relationships |-> <<>>]}
      \cup {[json |-> TRUE, relationships |-> r] :
               r \in {<<>>} \cup {<<c>> : c \in Confidences}
                       \cup {<<50, 90>>, <<90, 50>>}}

\* The outcomes of client.chat.completions.create: it raises, or it returns a
\* response with some content.
Responses ==
    {[raises |-> TRUE, content |-> [json |-> FALSE, relationships |-> <<>>]]}
      \cup {[raises |-> FALSE, content |-> c] : c \in Contents}

\* No run of find_relationships in progress.  calls, malformed and proposals
\* are history: the model calls made, the number of the last call answered by
\* text that is not JSON, the number of proposals received.
NoRun ==
    [pc |-> "idle", run |-> 0, new_table_name |-> "none", ncols |-> 0,
     targets |-> <<>>, batch_start |-> 0, target_idx |-> 1, calls |-> <<>>,
     all_relationships |-> <<>>, malformed |-> 0, proposals |-> 0]

\* As below, with the new table itself not excluded.
existing_table_identifiers_all(all_table_identifiers, full_table_name) ==
    all_table_identifiers

\* Step 2 of detect_and_store_relationships: "Exclude the new table itself"
existing_table_identifiers(all_table_identifiers, full_table_name) ==
    SelectSeq(all_table_identifiers, LAMBDA tid : tid # full_table_name)

\* Steps 1-3 of detect_and_store_relationships up to the call of
\* find_relationships: the source table has ncols column records, the catalog
\* holds the tables of all_table_identifiers, each with column records.
StartRun(counts) ==
    /\ det.pc = "idle"
    /\ \E full_table_name \in {"A", "B"}, ncols \in counts,
          all_table_identifiers \in TableLists :
         LET existing == existing_table_identifiers(all_table_identifiers,
                                                    full_table_name) IN
         /\ existing # <<>>
         /\ det' = [NoRun EXCEPT !.pc = "loop", !.run = det.run + 1,
                                 !.new_table_name = full_table_name,
                                 !.ncols = ncols, !.targets = existing]
    /\ UNCHANGED <<pipeline, relationships, naming, later>>

\* As below, with the JSONDecodeError not caught.
find_relationships_for_batch_uncaught(response) ==
    IF response.raises THEN [raised |-> FALSE, relationships |-> <<>>]
    ELSE IF ~response.content.json THEN [raised |-> TRUE, relationships |-> <<>>]
    ELSE [raised |-> FALSE, relationships |-> response.content.relationships]

\* _find_relationships_for_batch: the "relationships" of the parsed response;
\* a response that is not JSON (json.JSONDecodeError) and a call that raises
\* (Exception) are caught and give [].  raised: an exception leaves the method.
find_relationships_for_batch(response) ==
    IF response.raises THEN [raised |-> FALSE, relationships |-> <<>>]
    ELSE IF ~response.content.json THEN [raised |-> FALSE, relationships |-> <<>>]
    ELSE [raised |-> FALSE, relationships |-> response.content.relationships]

\* As below, with the filter left out.
filtered_all(batch_relationships) == batch_relationships

\* find_relationships: "Filter by confidence threshold"
filtered(batch_relationships) ==
    SelectSeq(batch_relationships, LAMBDA rel : rel.confidence >= confidence_threshold)

\* The proposals of a response as relationship dictionaries: the model names
\* the first column of the batch and the first column of the target table.
Proposals(response, batch_start, target_table_name) ==
    LET confs == find_relationships_for_batch(response).relationships IN
    [i \in 1..Len(confs) |->
        [source_table |-> det.new_table_name,
         source_column |-> batch_start + 1,
         target_table |-> target_table_name,
         target_column |-> 1,
         relationship_type |-> "foreign_key",
         confidence |-> confs[i],
         reasoning |-> det.run]]

\* find_relationships: one pass of the inner loop: one model call for the
\* current source batch and the current target table, then the filter.  The
\* call is awaited outside any try: an exception leaving it ends the run.
FindCall ==
    /\ det.pc = "loop"
    /\ \E response \in Responses :
         LET batch_end == IF det.batch_start + source_batch_size < det.ncols
                            THEN det.batch_start + source_batch_size
                            ELSE det.ncols
             target_table_name == det.targets[det.target_idx]
             batch_relationships ==
                 Proposals(response, det.batch_start, target_table_name)
             last_target == det.target_idx = Len(det.targets)
             last_batch == det.batch_start + source_batch_size >= det.ncols
             malformed == ~response.raises /\ ~response.content.json
         IN det' = [det EXCEPT
               !.calls = Append(@, [batch |-> <<det.batch_start + 1, batch_end>>,
                                    targets |-> {target_table_name}]),
               !.all_relationships = @ \o filtered(batch_relationships),
               !.malformed = IF malformed THEN Len(det.calls) + 1 ELSE @,
               !.proposals = @ + Len(batch_relationships),
               !.target_idx = IF last_target THEN 1 ELSE @ + 1,
               !.batch_start = IF last_target THEN @ + source_batch_size ELSE @,
               !.pc = IF find_relationships_for_batch(response).raised
                        THEN "raised"
                      ELSE IF last_target /\ last_batch THEN "done"
                      ELSE "loop"]
    /\ UNCHANGED <<pipeline, relationships, naming, later>>

\* dynamodb_relationships.py: store_relationships_batch: every relationship is
\* put as a new item under a fresh uuid4 relationship_id.
store_relationships_batch(rels) ==
    relationships \cup
      {[relationship_id |-> Cardinality(relationships) + i,
        source_table |-> rels[i].source_table,
        source_column |-> rels[i].source_column,
        target_table |-> rels[i].target_table,
        target_column |-> rels[i].target_column,
        relationship_type |-> rels[i].relationship_type,
        confidence |-> rels[i].confidence,
        reasoning |-> rels[i].reasoning] : i \in 1..Len(rels)}

\* Step 5 of detect_and_store_relationships: the relationships found are stored
\* (when there are any).
StoreRelationships ==
    /\ det.pc = "done"
    /\ relationships' = IF det.all_relationships # <<>>
                          THEN store_relationships_batch(det.all_relationships)
                          ELSE relationships
    /\ det' = [det EXCEPT !.pc = "stored"]
    /\ UNCHANGED <<pipeline, naming, later>>

\* --------------------------------------------------------- neptune_service.py

\* pad_embedding_to_2048: "if len(embedding_1536) != 1536" and
\* "[0.0] * (2048 - 1536)"
Dim1536 == 1536
Dim2048 == 2048

\* As below, with the zeros put in front of the embedding.
pad_embedding_to_2048_front(embedding_1536) ==
    IF Len(embedding_1536) # Dim1536
      THEN [raised |-> TRUE, padded |-> <<>>]
    ELSE [raised |-> FALSE,
          padded |-> [i \in 1..(Dim2048 - Dim1536) |-> 0] \o embedding_1536]

\* pad_embedding_to_2048(embedding_1536): ValueError for a list that has not
\* 1536 elements, else the list followed by 512 zeros.
pad_embedding_to_2048(embedding_1536) ==
    IF Len(embedding_1536) # Dim1536
      THEN [raised |-> TRUE, padded |-> <<>>]
    ELSE [raised |-> FALSE,
          padded |-> embedding_1536 \o [i \in 1..(Dim2048 - Dim1536) |-> 0]]

\* The lengths and the elements of the embeddings handed to the padding: a
\* vector is 1 everywhere except at the multiples of k, where it is v.
PadLens == {Dim1536 - 1, Dim1536, Dim1536 + 1}
PadSteps == 1..3
PadValues == {-2, 0, 3}
Vector(n, k, v) == [i \in 1..n |-> IF i % k = 0 THEN v ELSE 1]

\* No call of the padding made.
NoPadding ==
    [pc |-> "idle", emb1 |-> <<>>, emb2 |-> <<>>,
     raised |-> FALSE, emb1_padded |-> <<>>, emb2_padded |-> <<>>]

\* test_padding_impact: two embeddings of the same length are taken ...
PadCall ==
    /\ padding.pc = "idle"
    /\ \E n \in PadLens, k1 \in PadSteps, k2 \in PadSteps,
          v1 \in PadValues, v2 \in PadValues :
         padding' = [NoPadding EXCEPT !.pc = "called",
                                      !.emb1 = Vector(n, k1, v1),
                                      !.emb2 = Vector(n, k2, v2)]
    /\ UNCHANGED <<pipeline, det, relationships, naming, graph, export, geo, classified, multi>>

\* ... and both are padded.
PadReturn ==
    /\ padding.pc = "called"
    /\ LET p1 == pad_embedding_to_2048(padding.emb1)
           p2 == pad_embedding_to_2048(padding.emb2)
       IN padding' = [padding EXCEPT !.pc = "returned",
                                     !.raised = p1.raised \/ p2.raised,
                                     !.emb1_padded = p1.padded,
                                     !.emb2_padded = p2.padded]
    /\ UNCHANGED <<pipeline, det, relationships, naming, graph, export, geo, classified, multi>>

\* np.dot(a, b) over the elements lo..hi; np.linalg.norm(a) squared is
\* np.dot(a, a).
RECURSIVE DotRange(_, _, _, _)
DotRange(a, b, lo, hi) ==
    IF lo > hi THEN 0
    ELSE IF lo = hi THEN a[lo] * b[lo]
    ELSE LET mid == (lo + hi) \div 2
         IN DotRange(a, b, lo, mid) + DotRange(a, b, mid + 1, hi)

dot(a, b) == DotRange(a, b, 1, Len(a))

\* The tables that are exported, and the number of column records a table can
\* have when it is exported.
ExportTables == {"A", "B"}
ExportCols == 0..2

\* Exports in one behaviour.
MaxExports == 3

\* The graph before the first export.
NoGraph == [nodes |-> <<>>, edges |-> <<>>]

\* No export in progress.  count, outcomes, before, same and last are history:
\* the exports made, what happened to each column of this export, the graph
\* when this export started, whether this export repeats the last export of
\* the table, and what the last export of each table read.
NoExport ==
    [pc |-> "idle", count |-> 0, table |-> "none", ncols |-> 0,
     outcomes |-> <<>>, ret |-> "none", before |-> NoGraph, same |-> FALSE,
     failed |-> FALSE, last |-> [t \in ExportTables |-> [exported |-> FALSE]]]

\* MERGE (t:Table {name: ...}) and MERGE (c:Column {full_name: ...})
SameNode(n1, n2) == n1.label = n2.label /\ n1.name = n2.name

\* MERGE (t)-[:HAS_COLUMN]->(c) and
\* MERGE (source)-[r:RELATED_TO {source_column: ..., target_column: ...}]->(target)
SameEdge(e1, e2) ==
    /\ e1.type = e2.type /\ e1.from = e2.from /\ e1.to = e2.to
    /\ e1.source_column = e2.source_column
    /\ e1.target_column = e2.target_column

\* As below, with CREATE in the place of MERGE.
MergeNode_create(nodes, node) == Append(nodes, node)

\* MERGE (n) SET ...: the nodes that match are set to the new properties; when
\* none matches, one is created.
MergeNode(nodes, node) ==
    IF \E i \in 1..Len(nodes) : SameNode(nodes[i], node)
      THEN [i \in 1..Len(nodes) |->
               IF SameNode(nodes[i], node) THEN node ELSE nodes[i]]
    ELSE Append(nodes, node)

\* MERGE ()-[r]->() SET ...: the same for edges.
MergeEdge(edges, edge) ==
    IF \E i \in 1..Len(edges) : SameEdge(edges[i], edge)
      THEN [i \in 1..Len(edges) |->
               IF SameEdge(edges[i], edge) THEN edge ELSE edges[i]]
    ELSE Append(edges, edge)

\* MATCH (t:Table {name: ...})
HasTable(g, table_name) ==
    \E i \in 1..Len(g.nodes) :
       g.nodes[i].label = "Table" /\ g.nodes[i].name = table_name

\* create_table_node: the query of a successful call.
create_table_node(g, table_name, column_count) ==
    [g EXCEPT !.nodes =
        MergeNode(@, [label |-> "Table", name |-> table_name,
                     column_count |-> column_count])]

\* create_column_node: the query of a successful call; without the table node
\* MATCH gives no row and nothing is written.
create_column_node(g, table_name, column_name) ==
    IF ~HasTable(g, table_name) THEN g
    ELSE [nodes |-> MergeNode(g.nodes,
                       [label |-> "Column", name |-> <<table_name, column_name>>,
                        column_count |-> 0]),
          edges |-> MergeEdge(g.edges,
                       [type |-> "HAS_COLUMN", from |-> table_name,
                        to |-> <<table_name, column_name>>,
                        source_column |-> 0, target_column |-> 0,
                        relationship_type |-> "none", confidence |-> 0,
                        reasoning |-> 0])]

\* create_relationship_edge: the query of a successful call; without both
\* table nodes MATCH gives no row and nothing is written.
create_relationship_edge(g, rel) ==
    IF ~(HasTable(g, rel.source_table) /\ HasTable(g, rel.target_table)) THEN g
    ELSE [g EXCEPT !.edges =
            MergeEdge(@, [type |-> "RELATED_TO", from |-> rel.source_table,
                         to |-> rel.target_table,
                         source_column |-> rel.source_column,
                         target_column |-> rel.target_column,
                         relationship_type |-> rel.relationship_type,
                         confidence |-> rel.confidence,
                         reasoning |-> rel.reasoning])]

\* What can happen at Step 4-5 and at each column of Step 7: the embedding
\* call raises, the embedding has not 1536 elements, the query fails
\* (create_*_node returns False), or the node is written.
StageOutcomes == {"embedding raises", "wrong dimension", "write fails", "ok"}

\* The embedding the service returns, by its number of elements.
Embedding(outcome) ==
    [i \in 1..(IF outcome = "wrong dimension" THEN Dim1536 - 1 ELSE Dim1536) |-> 1]

\* As below, with the try around the column left out.
column_step_uncaught(outcome) ==
    [raised |-> outcome = "embedding raises"
                 \/ pad_embedding_to_2048(Embedding(outcome)).raised,
     written |-> outcome = "ok"]

\* Step 7 for one column: generate_column_embedding, pad_embedding_to_2048 and
\* create_column_node inside try ... except Exception: continue.
\* raised: an exception leaves the loop; written: the node query ran.
column_step(outcome) ==
    [raised |-> FALSE,
     written |-> /\ outcome # "embedding raises"
                 /\ ~pad_embedding_to_2048(Embedding(outcome)).raised
                 /\ outcome = "ok"]

\* Steps 1-6 of import_table_to_neptune: the metadata and the column records
\* are read, the table embedding is made and padded, the table node written.
ExportStart ==
    /\ export.pc = "idle"
    /\ export.count < MaxExports
    /\ \E t \in ExportTables, found \in BOOLEAN, ncols \in ExportCols,
          outcome \in StageOutcomes :
         LET ok == /\ found /\ ncols > 0 /\ outcome = "ok"
                   /\ ~pad_embedding_to_2048(Embedding(outcome)).raised
             rels == {r \in relationships : r.source_table = t}
             tnodes == {u \in ExportTables : HasTable(graph, u)} \cup {t}
         IN
         /\ graph' = IF ok THEN create_table_node(graph, t, ncols) ELSE graph
         /\ export' = [export EXCEPT
               !.pc = IF ok THEN "columns" ELSE "returned",
               !.ret = IF ok THEN "none" ELSE "False",
               !.table = t, !.ncols = ncols, !.outcomes = <<>>,
               !.before = graph, !.failed = FALSE,
               !.same = /\ export.last[t].exported
                        /\ export.last[t].ncols = ncols
                        /\ export.last[t].rels = rels
                        /\ export.last[t].tnodes = tnodes]
    /\ UNCHANGED <<pipeline, det, relationships, naming, padding, geo, classified, multi>>

\* Step 7 for the next column.
ExportColumn ==
    /\ export.pc = "columns"
    /\ \E outcome \in StageOutcomes :
         LET col_name == Len(export.outcomes) + 1
             step == column_step(outcome)
         IN
         /\ graph' = IF step.written
                       THEN create_column_node(graph, export.table, col_name)
                       ELSE graph
         /\ export' = [export EXCEPT
               !.outcomes = Append(@, outcome),
               !.pc = IF step.raised THEN "returned"
                      ELSE IF col_name = export.ncols THEN "edges" ELSE "columns",
               !.ret = IF step.raised THEN "False" ELSE @]
    /\ UNCHANGED <<pipeline, det, relationships, naming, padding, geo, classified, multi>>

\* get_relationships_by_source_table: the items of the source_table_index for
\* the table, in the order of the index.
RECURSIVE ById(_, _)
ById(rels, n) ==
    IF n = 0 THEN <<>>
    ELSE ById(rels, n - 1)
           \o (IF \E r \in rels : r.relationship_id = n
                 THEN <<CHOOSE r \in rels : r.relationship_id = n>> ELSE <<>>)

get_relationships_by_source_table(source_table) ==
    ById({r \in relationships : r.source_table = source_table},
         Cardinality(relationships))

\* Step 8: the loop over the relationships; the queries of failing do not run.
RECURSIVE CreateEdges(_, _, _)
CreateEdges(g, rels, failing) ==
    IF rels = <<>> THEN g
    ELSE CreateEdges(IF Head(rels).relationship_id \in failing THEN g
                     ELSE create_relationship_edge(g, Head(rels)),
                     Tail(rels), failing)

\* Step 8 of import_table_to_neptune and its return.
ExportEdges ==
    /\ export.pc = "edges"
    /\ LET rels == get_relationships_by_source_table(export.table) IN
       \E failing \in SUBSET {rels[i].relationship_id : i \in 1..Len(rels)} :
         /\ graph' = CreateEdges(graph, rels, failing)
         /\ export' = [export EXCEPT !.pc = "returned", !.ret = "True",
                                     !.failed = failing # {}]
    /\ UNCHANGED <<pipeline, det, relationships, naming, padding, geo, classified, multi>>

\* The call has returned; what it read is kept for the next export.
ExportReturn ==
    /\ export.pc = "returned"
    /\ export' = [export EXCEPT
          !.pc = "idle", !.count = @ + 1,
          !.last = IF export.ret = "True"
                     THEN [@ EXCEPT ![export.table] =
                            [exported |-> TRUE, ncols |-> export.ncols,
                             rels |-> {r \in relationships :
                                          r.source_table = export.table},
                             tnodes |-> {u \in ExportTables : HasTable(graph, u)},
                             clean |-> /\ ~export.failed
                                       /\ \A i \in 1..Len(export.outcomes) :
                                             export.outcomes[i] = "ok"]]
                     ELSE @]
    /\ UNCHANGED <<pipeline, det, relationships, naming, graph, padding, geo, classified, multi>>

\* ------------------------------------------------------ GeographicDetector

\* Sample values of a text column: place names and the empty string.
GeoSamples ==
    {<<>>, <<"">>, <<"x", "y">>, <<"x", "x">>, <<"", "x", "y">>,
     [i \in 1..5 |-> "x"], <<"x", "x", "x", "x", "y">>}
GeoValues == {"", "x", "y"}

\* Cardinalities around the lower limit of the content-based detection.
GeoCardinalities == {9, 10}

\* Calls of the detector in one behaviour.
MaxGeoCalls == 2

\* After __init__: the cache is empty.  calls, lookups, timed_out,
\* full_after_timeout and first are history: the calls made, the geocoder
\* calls per value, the values whose lookup timed out, whether such a value
\* was counted as a full match, and the input and result of the first call.
NoGeo ==
    [pc |-> "idle", calls |-> 0, looks_like_admin |-> FALSE, cardinality |-> 0,
     sample_values |-> <<>>, idx |-> 1, match_count2 |-> 0, ret |-> "None",
     geocode_cache |-> [v \in GeoValues |-> "absent"],
     lookups |-> [v \in GeoValues |-> 0], timed_out |-> {},
     full_after_timeout |-> FALSE,
     first |-> [made |-> FALSE]]

\* The input of the call in progress.
GeoInput == <<geo.looks_like_admin, geo.cardinality, geo.sample_values>>

\* _detect_administrative_type for a text column whose name has none of the
\* level patterns: the content-based detection is entered for
\* 10 <= cardinality <= 200000 and a name that looks administrative.
GeoCall ==
    /\ geo.pc = "idle"
    /\ geo.calls < MaxGeoCalls
    /\ \E looks_like_admin \in BOOLEAN, cardinality \in GeoCardinalities,
          sample_values \in GeoSamples :
         geo' = [geo EXCEPT
            !.pc = IF 10 <= cardinality /\ cardinality <= 200000 /\ looks_like_admin
                     THEN "counting" ELSE "returned",
            !.looks_like_admin = looks_like_admin,
            !.cardinality = cardinality,
            !.sample_values = sample_values,
            !.idx = 1, !.match_count2 = 0, !.ret = "None"]
    /\ UNCHANGED <<pipeline, det, relationships, naming, graph, export, padding, classified, multi>>

\* What self.geolocator.geocode can do.
GeocodeOutcomes == {"location", "no location", "timed out", "other error"}

\* _count_place_matches: one pass of the loop.  match_count2 is twice
\* match_count; a lookup that times out (GeocoderTimedOut,
\* GeocoderUnavailable) caches True for the value and adds 0.5.
GeoValue ==
    /\ geo.pc = "counting"
    /\ geo.idx <= Len(geo.sample_values)
    /\ LET val == geo.sample_values[geo.idx] IN
       IF val = ""
         THEN geo' = [geo EXCEPT !.idx = @ + 1]
       ELSE IF geo.geocode_cache[val] # "absent"
         THEN geo' = [geo EXCEPT
                !.idx = @ + 1,
                !.match_count2 = IF geo.geocode_cache[val] = "True" THEN @ + 2 ELSE @,
                !.full_after_timeout =
                    @ \/ (val \in geo.timed_out /\ geo.geocode_cache[val] = "True")]
       ELSE \E outcome \in GeocodeOutcomes :
              geo' = [geo EXCEPT
                !.idx = @ + 1,
                !.lookups[val] = @ + 1,
                !.geocode_cache[val] =
                    CASE outcome = "location" -> "True"
                      [] outcome = "no location" -> "False"
                      [] outcome = "timed out" -> "True"
                      [] OTHER -> "False",
                !.match_count2 =
                    CASE outcome = "location" -> @ + 2
                      [] outcome = "timed out" -> @ + 1
                      [] OTHER -> @,
                !.timed_out = IF outcome = "timed out" THEN @ \cup {val} ELSE @]
    /\ UNCHANGED <<pipeline, det, relationships, naming, graph, export, padding, classified, multi>>

\* return int(match_count), and in _detect_administrative_type:
\* place_match_count >= 5 gives the level by cardinality.
GeoCounted ==
    /\ geo.pc = "counting"
    /\ geo.idx > Len(geo.sample_values)
    /\ LET place_match_count == geo.match_count2 \div 2 IN
       geo' = [geo EXCEPT
          !.pc = "returned",
          !.ret = IF place_match_count >= 5
                    THEN (IF geo.cardinality < 500 THEN "state"
                          ELSE IF geo.cardinality < 50000 THEN "city"
                          ELSE "locality")
                  ELSE "None"]
    /\ UNCHANGED <<pipeline, det, relationships, naming, graph, export, padding, classified, multi>>

\* The call has returned; the detector (a module-level instance) keeps its
\* cache for the next call.
GeoReturn ==
    /\ geo.pc = "returned"
    /\ geo' = [geo EXCEPT
          !.pc = "idle", !.calls = @ + 1,
          !.first = IF geo.first.made THEN @
                    ELSE [made |-> TRUE, input |-> GeoInput, ret |-> geo.ret]]
    /\ UNCHANGED <<pipeline, det, relationships, naming, graph, export, padding, classified, multi>>

\* ------------------------------------------------------- ColumnTypeDetector

\* Strings are sequences of characters here, so that "p in col_name" is a
\* search for a substring.
Contains(str, p) ==
    \E i \in 0..(Len(str) - Len(p)) : SubSeq(str, i + 1, i + Len(p)) = p

DIMENSION_THRESHOLD == 20
PRIMARY_ID_PATTERNS ==
    {<<"l", "i", "n", "k", "_", "i", "d">>,
     <<"r", "o", "a", "d", "_", "i", "d">>,
     <<"u", "u", "i", "d">>,
     <<"g", "u", "i", "d">>,
     <<"p", "k">>,
     <<"p", "r", "i", "m", "a", "r", "y">>}
FOREIGN_KEY_PATTERNS ==
    {<<"p", "v", "i", "d">>,
     <<"f", "k">>,
     <<"r", "e", "f", "_", "i", "d">>,
     <<"p", "a", "r", "e", "n", "t", "_", "i", "d">>}
IDENTIFIER_PATTERNS ==
    {<<"i", "d">>,
     <<"k", "e", "y">>,
     <<"c", "o", "d", "e">>}
MEASURE_KEYWORDS ==
    {<<"k", "m", "s">>,
     <<"k", "i", "l", "o", "m", "e", "t", "e", "r", "s">>,
     <<"d", "i", "s", "t", "a", "n", "c", "e">>,
     <<"l", "e", "n", "g", "t", "h">>,
     <<"c", "o", "u", "n", "t">>,
     <<"t", "o", "t", "a", "l">>,
     <<"s", "u", "m">>,
     <<"a", "v", "g">>,
     <<"a", "m", "o", "u", "n", "t">>,
     <<"v", "a", "l", "u", "e">>,
     <<"p", "r", "i", "c", "e">>,
     <<"c", "o", "s", "t">>,
     <<"r", "a", "t", "e">>,
     <<"l", "a", "t", "i", "t", "u", "d", "e">>,
     <<"l", "o", "n", "g", "i", "t", "u", "d", "e">>,
     <<"l", "a", "t">>,
     <<"l", "o", "n">>,
     <<"c", "o", "o", "r", "d">>}
NUMERIC_TYPES ==
    {<<"b", "i", "g", "i", "n", "t">>,
     <<"i", "n", "t", "e", "g", "e", "r">>,
     <<"s", "m", "a", "l", "l", "i", "n", "t">>,
     <<"t", "i", "n", "y", "i", "n", "t">>,
     <<"d", "o", "u", "b", "l", "e">>,
     <<"f", "l", "o", "a", "t">>,
     <<"r", "e", "a", "l">>,
     <<"d", "e", "c", "i", "m", "a", "l">>,
     <<"n", "u", "m", "e", "r", "i", "c">>}
TIMESTAMP_TYPES ==
    {<<"t", "i", "m", "e", "s", "t", "a", "m", "p">>,
     <<"d", "a", "t", "e">>,
     <<"d", "a", "t", "e", "t", "i", "m", "e">>,
     <<"t", "i", "m", "e">>}

\* any(p in str for p in patterns)
ContainsAny(str, patterns) == \E p \in patterns : Contains(str, p)

\* _is_numeric_type
is_numeric_type(data_type) == ContainsAny(data_type, NUMERIC_TYPES)

\* uniqueness = cardinality / row_count compared with 0.8, in tenths.
UniquenessAbove(cardinality, row_count) == cardinality * 10 > row_count * 8
UniquenessBelow(cardinality, row_count) == cardinality * 10 < row_count * 8

\* As below, with the uniqueness test left out.
is_primary_identifier_by_cardinality(col_name, cardinality, row_count) ==
    LET has_primary_pattern == ContainsAny(col_name, PRIMARY_ID_PATTERNS)
        has_id_pattern == ContainsAny(col_name, IDENTIFIER_PATTERNS)
    IN IF ~(has_primary_pattern \/ has_id_pattern) THEN FALSE
       ELSE cardinality > 1000

\* _is_primary_identifier
is_primary_identifier(col_name, cardinality, row_count) ==
    LET has_primary_pattern == ContainsAny(col_name, PRIMARY_ID_PATTERNS)
        has_id_pattern == ContainsAny(col_name, IDENTIFIER_PATTERNS)
    IN IF ~(has_primary_pattern \/ has_id_pattern) THEN FALSE
       ELSE IF row_count > 0 /\ UniquenessAbove(cardinality, row_count) THEN TRUE
       ELSE cardinality > 1000

\* _is_foreign_key_dimension
is_foreign_key_dimension(col_name, cardinality, row_count) ==
    LET has_fk_pattern == ContainsAny(col_name, FOREIGN_KEY_PATTERNS)
        has_id_pattern == ContainsAny(col_name, IDENTIFIER_PATTERNS)
    IN IF ~(has_fk_pattern \/ has_id_pattern) THEN FALSE
       ELSE IF /\ row_count > 0
               /\ UniquenessBelow(cardinality, row_count)
               /\ cardinality < 1000 THEN TRUE
       ELSE cardinality <= 100

\* _is_measure
is_measure(col_name, data_type, cardinality) ==
    IF ~is_numeric_type(data_type) THEN FALSE
    ELSE IF ContainsAny(col_name, MEASURE_KEYWORDS) THEN TRUE
    ELSE cardinality > DIMENSION_THRESHOLD

\* _is_detail
is_detail(data_type, cardinality) ==
    IF is_numeric_type(data_type) THEN FALSE ELSE cardinality > 100

\* detect_column_type(column_name, data_type, cardinality, row_count); the
\* names and types given are in lower case already.
detect_column_type(col_lower, type_lower, cardinality, row_count) ==
    IF ContainsAny(type_lower, TIMESTAMP_TYPES) THEN "timestamp"
    ELSE IF is_primary_identifier(col_lower, cardinality, row_count) THEN "identifier"
    ELSE IF is_foreign_key_dimension(col_lower, cardinality, row_count) THEN "dimension"
    ELSE IF is_measure(col_lower, type_lower, cardinality) THEN "measure"
    ELSE IF cardinality <= DIMENSION_THRESHOLD THEN "dimension"
    ELSE IF is_detail(type_lower, cardinality) THEN "detail"
    ELSE IF is_numeric_type(type_lower) THEN "measure"
    ELSE "dimension"

\* The columns the classifier is called with.
ClassifyNames ==
    {<<"l", "i", "n", "k", "_", "i", "d">>,
     <<"u", "u", "i", "d">>,
     <<"p", "k">>,
     <<"p", "r", "i", "m", "a", "r", "y">>,
     <<"p", "v", "i", "d">>,
     <<"f", "k">>,
     <<"c", "o", "d", "e">>,
     <<"t", "o", "t", "a", "l", "_", "k", "m", "s">>,
     <<"n", "a", "m", "e">>}
ClassifyTypes ==
    {<<"b", "i", "g", "i", "n", "t">>,
     <<"d", "o", "u", "b", "l", "e">>,
     <<"v", "a", "r", "c", "h", "a", "r">>,
     <<"t", "i", "m", "e", "s", "t", "a", "m", "p">>}
ClassifyCardinalities == {20, 21, 50, 100, 101, 950, 1000, 1001}
ClassifyRowCounts == {0, 250, 1000}

\* No call of the classifier made.
NoClassified ==
    [pc |-> "idle", column_name |-> <<>>, data_type |-> <<>>,
     cardinality |-> 0, row_count |-> 0, column_type |-> "none"]

\* metadata_generator.py: detect_column_type is called for a column ...
ClassifyCall ==
    /\ classified.pc = "idle"
    /\ \E column_name \in ClassifyNames, data_type \in ClassifyTypes,
          cardinality \in ClassifyCardinalities, row_count \in ClassifyRowCounts :
         classified' = [NoClassified EXCEPT
            !.pc = "called", !.column_name = column_name,
            !.data_type = data_type, !.cardinality = cardinality,
            !.row_count = row_count]
    /\ UNCHANGED <<pipeline, det, relationships, naming, graph, export, padding, geo, multi>>

\* ... and returns the column type.
ClassifyReturn ==
    /\ classified.pc = "called"
    /\ classified' = [classified EXCEPT
          !.pc = "returned",
          !.column_type = detect_column_type(classified.column_name,
                                             classified.data_type,
                                             classified.cardinality,
                                             classified.row_count)]
    /\ UNCHANGED <<pipeline, det, relationships, naming, graph, export, padding, geo, multi>>

\* --------------------------------- MetadataGenerator: several tables at once

\* The tables of the catalog and schema, and how many of them one call names.
MultiTables == {"t1", "t2", "t3"}
MaxListed == 3

\* table_names as the callers build it: the names of get_tables_in_catalog,
\* each table of the schema once, in any order.
Listings ==
    {s \in UNION {[1..n -> MultiTables] : n \in 0..MaxListed} :
        \A i, j \in DOMAIN s : i # j => s[i] # s[j]}

\* How one call of generate_metadata_for_table ends:
\*   "exists":    metadata found and no force_refresh, return True;
\*   "no schema": the warehouse has no schema for the table, return False;
\*   "fails":     an exception inside, caught by its handler, return False;
\*   "ok":        columns and table item saved, return True;
\*   "escapes":   an exception leaves the function.
GenerateOutcomes(table_name, force_refresh, stored) ==
    IF ~force_refresh /\ table_name \in stored
    THEN {"exists"}
    ELSE {"no schema", "fails", "ok", "escapes"}

\* What the caller of generate_metadata_for_table gets.
GenerateResult(outcome) ==
    [raised |-> outcome = "escapes", ret |-> outcome \in {"exists", "ok"}]

\* results[table_name] = success
Put(results, table_name, success) ==
    [t \in DOMAIN results \cup {table_name} |->
        IF t = table_name THEN success ELSE results[t]]

\* No call of generate_metadata_for_all_tables made; stored is the set of
\* tables that have metadata.
NoMulti ==
    [pc |-> "idle", given |-> FALSE, table_names |-> <<>>,
     force_refresh |-> FALSE, i |-> 1, results |-> <<>>, calls |-> <<>>,
     stored |-> {}, ret |-> <<>>]

\* As below, with the loop left at the first table that does not succeed.
all_tables_step_break(m, outcome) ==
    LET table_name == m.table_names[m.i]
        call == GenerateResult(outcome)
        success == ~call.raised /\ call.ret
    IN  [m EXCEPT
           !.results = Put(@, table_name, success),
           !.calls = Append(@, [table_name |-> table_name, outcome |-> outcome]),
           !.stored = IF outcome = "ok" THEN @ \cup {table_name} ELSE @,
           !.i = IF success THEN @ + 1 ELSE Len(m.table_names) + 1]

\* The body of the loop for table_names[i]: the result of the call is put
\* into results, False when the call raises; the loop goes on either way.
all_tables_step(m, outcome) ==
    LET table_name == m.table_names[m.i]
        call == GenerateResult(outcome)
        success == IF call.raised THEN FALSE ELSE call.ret
    IN  [m EXCEPT
           !.results = Put(@, table_name, success),
           !.calls = Append(@, [table_name |-> table_name, outcome |-> outcome]),
           !.stored = IF outcome = "ok" THEN @ \cup {table_name} ELSE @,
           !.i = @ + 1]

\* generate_metadata_for_all_tables is called, with or without table_names.
MultiCall ==
    /\ multi.pc \in {"idle", "returned"}
    /\ \E given \in BOOLEAN, force_refresh \in BOOLEAN :
       \E table_names \in IF given THEN Listings ELSE {<<>>} :
          multi' = [NoMulti EXCEPT
             !.pc = "called", !.given = given, !.table_names = table_names,
             !.force_refresh = force_refresh, !.stored = multi.stored]
    /\ UNCHANGED <<pipeline, det, relationships, naming, graph, export, padding, geo, classified>>

\* table_names is None: return {}.
MultiNone ==
    /\ multi.pc = "called"
    /\ ~multi.given
    /\ multi' = [multi EXCEPT !.pc = "returned", !.ret = <<>>]
    /\ UNCHANGED <<pipeline, det, relationships, naming, graph, export, padding, geo, classified>>

\* One pass of the loop over table_names.
MultiStep ==
    /\ multi.pc = "called"
    /\ multi.given
    /\ multi.i <= Len(multi.table_names)
    /\ \E outcome \in GenerateOutcomes(multi.table_names[multi.i],
                                       multi.force_refresh, multi.stored) :
          multi' = all_tables_step(multi, outcome)
    /\ UNCHANGED <<pipeline, det, relationships, naming, graph, export, padding, geo, classified>>

\* The loop is over: return results.
MultiReturn ==
    /\ multi.pc = "called"
    /\ multi.given
    /\ multi.i > Len(multi.table_names)
    /\ multi' = [multi EXCEPT !.pc = "returned", !.ret = multi.results]
    /\ UNCHANGED <<pipeline, det, relationships, naming, graph, export, padding, geo, classified>>

\* ---------------------------------------------------------- specification

Init ==
    /\ item = [t \in Tables |-> NoItem]
    /\ columns = [t \in Tables |-> {}]
    /\ tasks = [t \in Tables |-> [pc \in TaskPcs |-> 0]]
    /\ worker = [w \in Workers |-> Idle]
    /\ gen_ret = "none"
    /\ streak = [t \in Tables |-> [a \in Axes |-> 0]]
    /\ det = NoRun
    /\ relationships = {}
    /\ naming = NoCall
    /\ graph = NoGraph
    /\ export = NoExport
    /\ padding = NoPadding
    /\ geo = NoGeo
    /\ classified = NoClassified
    /\ multi = NoMulti

Generation ==
    \E t \in Tables :
       \/ GenerateExisting(t)
       \/ \E mode \in Modes :
            \/ GenerateNoSchema(t, mode)
            \/ GenerateRaise(t, mode)
            \/ GenerateOk(t, mode)

Detection ==
    \E t \in Tables :
       \/ DetectStart(t)
       \/ DetectNoMetadata(t)
       \/ DetectNoExistingTables(t)
       \/ DetectLoaded(t)
       \/ DetectInnerError(t)
       \/ DetectCompleted(t)
       \/ DetectFailed(t)

\* The steps of process_table once it is entered.
Sweep(w) ==
    \/ EnrichmentInProgress(w)
    \/ EnrichmentCompleted(w)
    \/ EnrichmentExcept(w)
    \/ EnrichmentFailed(w)
    \/ RefreshMetadata(w)
    \/ RelationshipsInProgress(w)
    \/ RelationshipsExcept(w)
    \/ RelationshipsFailed(w)
    \/ NeptuneImporting(w)
    \/ NeptuneImported(w)
    \/ NeptuneExcept(w)
    \/ NeptuneFailed(w)

\* The whole pipeline; the runs of the cron worker do not overlap (one
\* invocation at a time).
Next ==
    \/ Generation
    \/ Detection
    \/ \E t \in Tables : ManualDetect(t)
    \/ main("w1")
    \/ \E t \in Tables : process_table("w1", t)
    \/ Sweep("w1")

Spec == Init /\ [][Next]_vars

\* Two runs of the cron worker overlap on a table that was onboarded once.
OverlapNext ==
    \/ \E t \in Tables : GenerateOk(t, "generate")
    \/ \E t \in Tables :
          \/ DetectStart(t)
          \/ DetectNoExistingTables(t)
          \/ DetectLoaded(t)
          \/ DetectInnerError(t)
          \/ DetectCompleted(t)
          \/ DetectFailed(t)
    \/ \E w \in Workers, t \in Tables : process_table(w, t)
    \/ \E w \in Workers : Sweep(w)

OverlapSpec == Init /\ [][OverlapNext]_vars

\* One detection run of a table, from Step 1 to the stored relationships.
DetectorNext ==
    \/ StartRun(ColCounts)
    \/ FindCall
    \/ StoreRelationships

DetectorSpec == Init /\ [][DetectorNext]_vars

\* Detection runs of tables with one column, one after the other.
MaxRuns == 2

NextRun ==
    /\ det.pc = "stored"
    /\ det.run < MaxRuns
    /\ det' = [NoRun EXCEPT !.run = det.run]
    /\ UNCHANGED <<pipeline, relationships, naming, later>>

DedupNext ==
    \/ StartRun({1})
    \/ FindCall
    \/ StoreRelationships
    \/ NextRun

DedupSpec == Init /\ [][DedupNext]_vars

\* One call of the naming generator for a column.
NamingNext ==
    \/ NamingCall
    \/ PrimaryStage
    \/ SecondaryStage
    \/ RuleStage

NamingSpec == Init /\ [][NamingNext]_vars

\* One detection run of a table with one column against one other table, then
\* exports of the tables.
ExportNext ==
    \/ /\ export.pc = "idle" /\ export.count = 0
       /\ det.pc # "idle" \/ det.run = 0
       /\ DedupNext
       /\ Len(det'.targets) <= 1
    \/ det.pc = "idle" /\ ExportStart
    \/ ExportColumn
    \/ ExportEdges
    \/ ExportReturn

ExportSpec == Init /\ [][ExportNext]_vars

\* Two embeddings are padded.
PadNext ==
    \/ PadCall
    \/ PadReturn

PadSpec == Init /\ [][PadNext]_vars

\* Calls of the geographic detector, one after the other.
GeoNext ==
    \/ GeoCall
    \/ GeoValue
    \/ GeoCounted
    \/ GeoReturn

GeoSpec == Init /\ [][GeoNext]_vars

\* One call of the column classifier.
ClassifyNext ==
    \/ ClassifyCall
    \/ ClassifyReturn

ClassifySpec == Init /\ [][ClassifyNext]_vars

\* Calls of generate_metadata_for_all_tables, one after the other.
MultiNext ==
    \/ MultiCall
    \/ MultiNone
    \/ MultiStep
    \/ MultiReturn

MultiSpec == Init /\ [][MultiNext]_vars

\* The sweep keeps running and the started coroutines keep running: every pass
\* of the worker enters process_table for every table and finishes it, every
\* detection coroutine runs to its return.  Calls of the API and of the manual
\* scripts may stop.
FairSpec ==
    /\ Spec
    /\ WF_vars(Detection)
    /\ WF_vars(Sweep("w1"))
    /\ \A t \in Tables : WF_vars(process_table("w1", t))

\* ------------------------------------------------------------ the status axes

\* The state of an axis of a table in the terms of the state machine.
AxisState(it, a) ==
    IF a = "enrichment" THEN
         CASE it.enrichment_status = "not_started" -> "NOT_STARTED"
           [] it.enrichment_status = "in_progress" -> "IN_PROGRESS"
           [] it.enrichment_status = "completed" -> "COMPLETED"
           [] it.enrichment_status = "failed" -> "FAILED"
    ELSE IF a = "relationship" THEN
         CASE it.relationship_detection_status = "not_started" -> "NOT_STARTED"
           [] it.relationship_detection_status = "in_progress" -> "IN_PROGRESS"
           [] it.relationship_detection_status = "completed" -> "COMPLETED"
           [] it.relationship_detection_status = "failed" -> "FAILED"
    ELSE CASE it.neptune_import_status = "not_imported" -> "NOT_STARTED"
           [] it.neptune_import_status = "importing" -> "IN_PROGRESS"
           [] it.neptune_import_status = "imported" -> "COMPLETED"
           [] it.neptune_import_status = "failed" -> "FAILED"

RetryCount(it, a) ==
    IF a = "enrichment" THEN it.enrichment_retry_count
    ELSE IF a = "relationship" THEN it.relationship_retry_count
    ELSE it.neptune_retry_count

ErrorOf(it, a) ==
    IF a = "enrichment" THEN it.enrichment_error
    ELSE IF a = "relationship" THEN it.relationship_error
    ELSE it.neptune_import_error

\* The sweep's eligibility check of an axis.
ShouldProcess(it, a) ==
    IF a = "enrichment" THEN should_process_enrichment(it)
    ELSE IF a = "relationship" THEN should_process_relationships(it)
    ELSE should_process_neptune(it)

\* Detection coroutines of a table: all, and those past Step 0.
TasksOf(t) == tasks[t]["step0"] + tasks[t]["loading"] + tasks[t]["detecting"]
RunningTasksOf(t) == tasks[t]["loading"] + tasks[t]["detecting"]

\* The worker of a table is inside its run of axis a.
WorkerIn(w, t, a) ==
    /\ worker[w].table = t
    /\ worker[w].pc \in
         (IF a = "enrichment"
            THEN {"enrichment_run", "enrichment_failed"}
          ELSE IF a = "relationship"
            THEN {"relationships_except", "relationships_failed"}
          ELSE {"neptune_run", "neptune_failed"})

\* Nothing that could still write the status of axis a of table t is running.
Abandoned(t, a) ==
    /\ \A w \in Workers : ~WorkerIn(w, t, a)
    /\ a = "relationship" => TasksOf(t) = 0

\* The item with the status of axis a replaced by FAILED.
AsFailed(it, a) ==
    IF a = "enrichment" THEN [it EXCEPT !.enrichment_status = "failed"]
    ELSE IF a = "relationship"
      THEN [it EXCEPT !.relationship_detection_status = "failed"]
    ELSE [it EXCEPT !.neptune_import_status = "failed"]

\* Axis a of table t has reached the end of its lifecycle.
Settled(t, a) ==
    \/ AxisState(item[t], a) = "COMPLETED"
    \/ /\ AxisState(item[t], a) = "FAILED"
       /\ RetryCount(item[t], a) = MAX_RETRIES

\* A failure of axis a of table t is recorded by this step.
Recorded(t, a) ==
    /\ AxisState(item'[t], a) = "FAILED"
    /\ RetryCount(item'[t], a) = RetryCount(item[t], a) + 1
    /\ ErrorOf(item'[t], a) \in 1..ERROR_LIMIT

\* --------------------------------------- dynamodb.py: get_tables_needing_retry

\* status_field = f"{operation}_status" if operation != "relationship"
\*                else "relationship_detection_status"
status_field(operation) ==
    IF operation # "relationship" THEN operation \o "_status"
    ELSE "relationship_detection_status"

\* retry_field = f"{operation}_retry_count"
retry_field(operation) == operation \o "_retry_count"

\* item.get(field, default)
ItemGet(it, field, default) ==
    IF field \in DOMAIN it THEN it[field] ELSE default

\* get_tables_needing_retry(operation, max_retries): the scanned items whose
\* status field is "failed" and whose retry field is below max_retries.
get_tables_needing_retry(operation, max_retries) ==
    IF operation \notin {"enrichment", "relationship", "neptune"} THEN {}
    ELSE {t \in Tables :
            /\ item[t].present
            /\ ItemGet(item[t], status_field(operation), "not_started") = "failed"
            /\ ItemGet(item[t], retry_field(operation), 0) < max_retries}

\* -------------------------------------------------------------------- claims

\* C1: the relationship-detection axis and the graph-import axis of a table
\* leave NOT_STARTED only in a step taken while the table's enrichment axis is
\* COMPLETED, whoever takes the step (the sweep or the trigger at the end of
\* an enrichment).
C1_DependentAxesWaitForEnrichment ==
    [][\A t \in Tables : \A a \in {"relationship", "neptune"} :
         ( /\ item[t].present
           /\ item'[t].present
           /\ AxisState(item[t], a) = "NOT_STARTED"
           /\ AxisState(item'[t], a) # "NOT_STARTED" )
         => item[t].enrichment_status = "completed"]_vars

\* C2: triggers of an axis are re-entrant: a trigger arriving while the axis
\* is IN_PROGRESS starts no work, so of any number of triggers of the
\* relationship detection of a table at most one coroutine is past its
\* transition to IN_PROGRESS at any time.
C2_OneRunningDetection ==
    \A t \in Tables : RunningTasksOf(t) <= 1

\* C3: when a started relationship-detection coroutine returns, the axis is
\* COMPLETED, or it is FAILED and the retry count is one higher; it is never
\* left IN_PROGRESS (or in any other state) by a return.
C3_DetectionReturnsSettled ==
    [][\A t \in Tables :
         (TasksOf(t) = 1 /\ TasksOf(t)' = 0)
         => \/ AxisState(item'[t], "relationship") = "COMPLETED"
            \/ /\ AxisState(item'[t], "relationship") = "FAILED"
               /\ item'[t].relationship_retry_count
                     = item[t].relationship_retry_count + 1]_vars

\* C4: a run of an axis that ends in its exception handler leaves the axis
\* FAILED, its retry count one higher than before and the error text, cut to
\* ERROR_LIMIT characters, stored: for the detection coroutine and for the
\* three runs of the worker alike.
C4_FailureRecorded ==
    [][\A t \in Tables :
         /\ DetectFailed(t) => Recorded(t, "relationship")
         /\ \A w \in Workers :
              worker[w].table = t =>
                /\ EnrichmentFailed(w) => Recorded(t, "enrichment")
                /\ RelationshipsFailed(w) => Recorded(t, "relationship")
                /\ NeptuneFailed(w) => Recorded(t, "neptune")]_vars

\* C5: once an axis of a table has failed MAX_RETRIES times in a row, its
\* retry count is MAX_RETRIES and the sweep's check of the axis refuses a
\* further attempt.
C5_ThreeFailuresReachCeiling ==
    \A t \in Tables : \A a \in Axes :
       streak[t][a] = MAX_RETRIES =>
          /\ RetryCount(item[t], a) = MAX_RETRIES
          /\ ~ShouldProcess(item[t], a)

\* C6: no step moves an axis from NOT_STARTED or FAILED to IN_PROGRESS while
\* the retry count of the axis is MAX_RETRIES or more, whichever entry point
\* takes the step.
C6_NoStartAtCeiling ==
    [][\A t \in Tables : \A a \in Axes :
         ( /\ item[t].present
           /\ AxisState(item[t], a) \in {"NOT_STARTED", "FAILED"}
           /\ AxisState(item'[t], a) = "IN_PROGRESS" )
         => RetryCount(item[t], a) < MAX_RETRIES]_vars

\* C7: the retry count of an axis never decreases and never exceeds
\* MAX_RETRIES.
C7_RetryCountMonotoneBounded ==
    [][\A t \in Tables : \A a \in Axes :
         /\ RetryCount(item'[t], a) >= RetryCount(item[t], a)
         /\ RetryCount(item'[t], a) <= MAX_RETRIES]_vars

\* C8: with runs of the worker overlapping, every failure a worker records
\* raises the stored retry count of the axis by one, so k recorded failures
\* raise it by k: no increment is lost.
C8_NoLostIncrement ==
    [][\A w \in Workers :
         /\ EnrichmentFailed(w) =>
              item'[worker[w].table].enrichment_retry_count
                 = item[worker[w].table].enrichment_retry_count + 1
         /\ RelationshipsFailed(w) =>
              item'[worker[w].table].relationship_retry_count
                 = item[worker[w].table].relationship_retry_count + 1
         /\ NeptuneFailed(w) =>
              item'[worker[w].table].neptune_retry_count
                 = item[worker[w].table].neptune_retry_count + 1]_vars

\* C9: an axis that is IN_PROGRESS with nothing left running that could
\* finish it (so that its last update only grows older) is eligible for a new
\* trigger whenever it would be eligible as a FAILED axis.
C9_AbandonedInProgressEligible ==
    \A t \in Tables : \A a \in Axes :
       ( /\ item[t].present
         /\ AxisState(item[t], a) = "IN_PROGRESS"
         /\ Abandoned(t, a)
         /\ ShouldProcess(AsFailed(item[t], a), a) )
       => ShouldProcess(item[t], a)

\* A call from outside the sweep: of the API or of the manual script.
OutsideCall == Generation \/ \E t \in Tables : ManualDetect(t)

\* C10: if the sweep keeps running and the calls from outside the sweep stop,
\* every axis of every stored table eventually is COMPLETED or is FAILED with
\* its retry count at MAX_RETRIES.
C10_EveryAxisSettles ==
    \A t \in Tables : \A a \in Axes :
       <>[][~OutsideCall]_vars => (item[t].present ~> Settled(t, a))

\* C11: an axis that is COMPLETED carries no error text: the run that
\* completes an axis clears the error stored by an earlier failed attempt.
C11_CompletedHasNoError ==
    \A t \in Tables : \A a \in Axes :
       (item[t].present /\ AxisState(item[t], a) = "COMPLETED")
          => ErrorOf(item[t], a) = None

\* C12: the successful first enrichment of a table (the run that stores the
\* table's item) leaves the enrichment axis COMPLETED and the
\* relationship-detection and graph-import axes NOT_STARTED.
C12_FirstEnrichmentStatuses ==
    [][\A t \in Tables :
         (~item[t].present /\ item'[t].present)
         => /\ AxisState(item'[t], "enrichment") = "COMPLETED"
            /\ AxisState(item'[t], "relationship") = "NOT_STARTED"
            /\ AxisState(item'[t], "neptune") = "NOT_STARTED"]_vars

\* What the store holds of axis a of an item: state, retry count, error.
AxisOf(it, a) == <<AxisState(it, a), RetryCount(it, a), ErrorOf(it, a)>>

\* This step leaves every axis of table t other than a as it is.
OtherAxesKept(t, a) ==
    \A b \in Axes \ {a} : AxisOf(item'[t], b) = AxisOf(item[t], b)

\* C13: the three axes of a table are independent: a step of a run of one
\* axis (a run or re-run of the enrichment through generation, a step of the
\* detection coroutine, a step of one of the worker's three runs) leaves the
\* state, retry count and error of the table's other two axes unchanged.
C13_AxesIndependent ==
    [][\A t \in Tables :
         item[t].present =>
           /\ (\E mode \in Modes : GenerateOk(t, mode))
                 => OtherAxesKept(t, "enrichment")
           /\ (DetectStart(t) \/ DetectNoMetadata(t)
                  \/ DetectCompleted(t) \/ DetectFailed(t))
                 => OtherAxesKept(t, "relationship")
           /\ \A w \in Workers :
                worker[w].table = t =>
                  /\ (EnrichmentInProgress(w) \/ EnrichmentCompleted(w)
                         \/ EnrichmentFailed(w))
                        => OtherAxesKept(t, "enrichment")
                  /\ (RelationshipsInProgress(w) \/ RelationshipsFailed(w))
                        => OtherAxesKept(t, "relationship")
                  /\ (NeptuneImporting(w) \/ NeptuneImported(w)
                         \/ NeptuneFailed(w))
                        => OtherAxesKept(t, "neptune")]_vars

\* C14: a forced regeneration of a table that already has metadata (through
\* force_refresh=True or through refresh_metadata_for_table) runs, and after
\* it the table's column records are exactly those of the schema just
\* regenerated: no record from before the run is left.
C14_ForceRefreshReplacesColumns ==
    [][\A t \in Tables : \A mode \in {"force", "refresh"} :
         \A table_schema \in SUBSET ColNames \ {{}} :
            (item[t].present /\ GenerateOkSchema(t, mode, table_schema))
               => columns'[t] = table_schema]_vars

\* Two stored relationships join the same two columns in opposite directions
\* with the same type.
Reversed(r1, r2) ==
    /\ r1.source_table = r2.target_table
    /\ r1.source_column = r2.target_column
    /\ r1.target_table = r2.source_table
    /\ r1.target_column = r2.source_column
    /\ r1.relationship_type = r2.relationship_type

\* C15: a column pair found as A -> B in the detection run of A and as
\* B -> A in the run of B, with different reasoning text, is stored once: the
\* store never holds both directions of a pair with the same type.
C15_OneRecordPerPair ==
    \A r1, r2 \in relationships :
       (Reversed(r1, r2) /\ r1.reasoning # r2.reasoning) => r1 = r2

\* The number of source batches of the run.
NumBatches == (det.ncols + source_batch_size - 1) \div source_batch_size

\* C16: a model response that is not JSON adds no relationship for its
\* (batch, target) pair and does not end the run: a run that ends has made
\* its call for every pair.
C16_MalformedResponseSkipped ==
    [][/\ (det.pc = "loop" /\ det'.malformed = Len(det'.calls))
            => /\ det'.all_relationships = det.all_relationships
               /\ det'.pc \in {"loop", "done"}
       /\ det'.pc \notin {"idle", "loop"}
            => /\ det'.pc \in {"done", "stored"}
               /\ Len(det'.calls) = NumBatches' * Len(det'.targets)]_vars

\* A run has ended after a response that was not JSON, with calls made later.
C16_Witness ==
    /\ det.pc = "done"
    /\ det.malformed = 1
    /\ Len(det.calls) > 1
    /\ det.all_relationships # <<>>

\* C17: every relationship find_relationships returns, and every
\* relationship a detection run stores, has a confidence of at least
\* confidence_threshold.
C17_ConfidenceAtLeastThreshold ==
    /\ \A i \in 1..Len(det.all_relationships) :
          det.all_relationships[i].confidence >= confidence_threshold
    /\ \A r \in relationships : r.confidence >= confidence_threshold

\* A run has stored a relationship at the threshold and has discarded a
\* proposal.
C17_Witness ==
    /\ det.pc = "stored"
    /\ det.proposals > Len(det.all_relationships)
    /\ \E r \in relationships : r.confidence = confidence_threshold

\* C18: when a run has ended, its calls have batches of at most
\* source_batch_size columns that partition the source table's columns, every
\* call has exactly one target table, which is not the source table, and there
\* is exactly one call for every pair of a batch and a target table.
C18_OneCallPerBatchAndTarget ==
    det.pc \in {"done", "stored"} =>
      LET Calls == 1..Len(det.calls)
          Batches == {det.calls[i].batch : i \in Calls}
          Targets == {det.targets[j] : j \in 1..Len(det.targets)}
      IN /\ \A b \in Batches : b[2] - b[1] + 1 <= source_batch_size
         /\ \A c \in 1..det.ncols :
               Cardinality({b \in Batches : b[1] <= c /\ c <= b[2]}) = 1
         /\ \A i \in Calls :
               /\ Cardinality(det.calls[i].targets) = 1
               /\ det.new_table_name \notin det.calls[i].targets
         /\ \A b \in Batches : \A t \in Targets :
               Cardinality({i \in Calls : det.calls[i].batch = b
                                          /\ det.calls[i].targets = {t}}) = 1
         /\ Len(det.calls) = Cardinality(Batches) * Cardinality(Targets)

\* A run over three batches and two target tables has ended.
C18_Witness ==
    /\ det.pc = "done"
    /\ det.ncols = 41
    /\ Len(det.targets) = 2
    /\ Len(det.calls) = 6

\* Every call of a model stage made in this call of the generator has raised.
ModelCallsFailed ==
    \A i \in 1..Len(naming.attempted) :
       naming.attempted[i] # "rule" => naming.outcomes[i] = "raises"

\* C19: when every call of a model stage fails, the naming generator returns
\* at least one alias, and a description that is not empty, for every column
\* name.
C19_FallbackFloor ==
    (naming.pc = "returned" /\ ModelCallsFailed) =>
       /\ naming.kind = "aliases" => Len(naming.aliases) >= 1
       /\ naming.kind = "description" => naming.description # ""

\* The stages of the chain that exist for this generator: the primary stage
\* when the Azure generator could be imported, then the local model, then
\* the rules.
Chain ==
    IF naming.azure_available THEN <<"primary", "secondary", "rule">>
    ELSE <<"secondary", "rule">>

\* C20: the stages are attempted in the order primary, secondary, rule-based,
\* none is passed over, and a stage is attempted only after the stage before
\* it raised or returned too little.
C20_StagesInOrder ==
    naming.pc = "returned" =>
       /\ Len(naming.attempted) <= Len(Chain)
       /\ \A i \in 1..Len(naming.attempted) : naming.attempted[i] = Chain[i]
       /\ \A i \in 1..(Len(naming.attempted) - 1) :
             naming.outcomes[i] \in {"raises", "0", "1", "20"}

\* The column nodes and HAS_COLUMN edges of the columns of this export that
\* were written.
WrittenColumnsInGraph ==
    \A c \in 1..Len(export.outcomes) :
       export.outcomes[c] = "ok" =>
          /\ \E i \in 1..Len(graph.nodes) :
                /\ graph.nodes[i].label = "Column"
                /\ graph.nodes[i].name = <<export.table, c>>
          /\ \E i \in 1..Len(graph.edges) :
                /\ graph.edges[i].type = "HAS_COLUMN"
                /\ graph.edges[i].to = <<export.table, c>>

\* C21: when the embedding call or the node write of a column fails, the
\* export goes on with the columns after it, writes them, and returns success.
C21_ColumnFailureSkipped ==
    (export.pc = "returned" /\ export.outcomes # <<>>) =>
       /\ export.ret = "True"
       /\ Len(export.outcomes) = export.ncols
       /\ WrittenColumnsInGraph

\* An export whose first column failed and whose second column was written.
C21_Witness ==
    /\ export.pc = "returned"
    /\ export.ret = "True"
    /\ \E o \in {"embedding raises", "write fails"} : export.outcomes = <<o, "ok">>
    /\ WrittenColumnsInGraph

\* No two nodes of the graph have the same label and name, no two edges the
\* same type, ends and columns.
NoDuplicates ==
    /\ \A i, j \in 1..Len(graph.nodes) :
          SameNode(graph.nodes[i], graph.nodes[j]) => i = j
    /\ \A i, j \in 1..Len(graph.edges) :
          SameEdge(graph.edges[i], graph.edges[j]) => i = j

\* C22: an export of a table that repeats a completed export of it (the same
\* columns, the same relationships, the same table nodes to link to) leaves
\* the graph as it was, and the graph never holds a node or an edge twice.
C22_ExportIdempotent ==
    /\ NoDuplicates
    /\ (/\ export.pc = "returned" /\ export.ret = "True"
        /\ export.same /\ export.last[export.table].clean)
         => graph = export.before

\* A second export of a table that wrote its columns again and found its
\* relationship edge in the graph.
C22_Witness ==
    /\ export.pc = "returned" /\ export.ret = "True"
    /\ export.same /\ export.last[export.table].clean
    /\ ~export.failed
    /\ export.outcomes = <<"ok", "ok">>
    /\ \E i \in 1..Len(graph.edges) :
          graph.edges[i].type = "RELATED_TO" /\ graph.edges[i].from = export.table

\* C28: once the two tables of a stored relationship have both been exported
\* (every write of the exports succeeded), the graph holds the RELATED_TO
\* edge of the relationship.
C28_EdgeAfterBothExported ==
    export.pc = "idle" =>
       \A r \in relationships :
          (/\ r.target_table \in ExportTables
           /\ export.last[r.source_table].exported
           /\ export.last[r.source_table].clean
           /\ export.last[r.target_table].exported
           /\ export.last[r.target_table].clean)
            => \E i \in 1..Len(graph.edges) :
                  /\ graph.edges[i].type = "RELATED_TO"
                  /\ graph.edges[i].from = r.source_table
                  /\ graph.edges[i].to = r.target_table
                  /\ graph.edges[i].source_column = r.source_column
                  /\ graph.edges[i].target_column = r.target_column

\* The padded vector has 2048 elements, starts with the elements of the
\* embedding in order, and is zero after them.
PaddedFrom(padded, emb) ==
    /\ Len(padded) = Dim2048
    /\ \A i \in 1..Len(emb) : i <= Dim2048 => padded[i] = emb[i]
    /\ \A i \in (Len(emb) + 1)..Dim2048 : padded[i] = 0

\* The padding gave the vectors the claim describes: the same dot product and
\* the same norms as the embeddings.
PaddingKeeps ==
    /\ ~padding.raised
    /\ PaddedFrom(padding.emb1_padded, padding.emb1)
    /\ PaddedFrom(padding.emb2_padded, padding.emb2)
    /\ dot(padding.emb1_padded, padding.emb2_padded) = dot(padding.emb1, padding.emb2)
    /\ dot(padding.emb1_padded, padding.emb1_padded) = dot(padding.emb1, padding.emb1)
    /\ dot(padding.emb2_padded, padding.emb2_padded) = dot(padding.emb2, padding.emb2)

\* C30: padding an embedding gives a vector of 2048 elements that starts with
\* the embedding and is zero after it, so dot products and norms are kept.
C30_PaddingKeepsDotAndNorm ==
    padding.pc = "returned" => PaddingKeeps

\* C30 as amended: this holds for the embeddings of exactly 1536 elements;
\* an embedding of another length is refused with ValueError.
C30_PaddingOf1536 ==
    padding.pc = "returned" =>
       IF Len(padding.emb1) = Dim1536 THEN PaddingKeeps ELSE padding.raised

\* Two different embeddings of 1536 elements, not orthogonal, were padded.
C30_Witness ==
    /\ padding.pc = "returned"
    /\ Len(padding.emb1) = Dim1536
    /\ padding.emb1 # padding.emb2
    /\ dot(padding.emb1, padding.emb2) # 0
    /\ Len(padding.emb1_padded) = Dim2048

\* generate_metadata_for_table(force_refresh=False) is called for the table.
GenerateWithoutForce(t) ==
    \/ GenerateExisting(t)
    \/ GenerateNoSchema(t, "generate")
    \/ GenerateRaise(t, "generate")
    \/ GenerateOk(t, "generate")

C29_RetryScanExact ==
    \A operation \in Axes, max_retries \in {2, MAX_RETRIES} :
       get_tables_needing_retry(operation, max_retries)
         = {t \in Tables :
              /\ item[t].present
              /\ AxisState(item[t], operation) = "FAILED"
              /\ RetryCount(item[t], operation) < max_retries}

\* C23: the detector gives the same output for the same input on every call,
\* whatever the calls before it left in the geocoding cache.
C23_SameInputSameOutput ==
    (geo.pc = "returned" /\ geo.first.made /\ geo.first.input = GeoInput)
       => geo.ret = geo.first.ret

\* C24: the geocoder is called at most once for each value, and a value whose
\* lookup timed out is never counted as a full match.
C24_CachedAndPartial ==
    /\ \A v \in GeoValues : geo.lookups[v] <= 1
    /\ ~geo.full_after_timeout

\* A call for a numeric column that is not of a time type and whose name has
\* one of the primary-key patterns, with a known row count.
PrimaryKeyLike ==
    /\ classified.pc = "returned"
    /\ is_numeric_type(classified.data_type)
    /\ ~ContainsAny(classified.data_type, TIMESTAMP_TYPES)
    /\ ContainsAny(classified.column_name, PRIMARY_ID_PATTERNS)
    /\ classified.row_count > 0

\* C25: such a column is an identifier at uniqueness 0.95, and a dimension at
\* uniqueness 0.2 with cardinality 50.
C25_PrimaryKeyNameByUniqueness ==
    PrimaryKeyLike =>
       /\ classified.cardinality * 100 = classified.row_count * 95
            => classified.column_type = "identifier"
       /\ (/\ classified.cardinality * 10 = classified.row_count * 2
           /\ classified.cardinality = 50)
            => classified.column_type = "dimension"

\* C25 as amended: at uniqueness 0.95 the column is an identifier; at
\* uniqueness 0.2 with cardinality 50 it is a dimension when its name also has
\* an id-like token or a foreign-key pattern (link_id, road_id, uuid, guid),
\* and a measure when it has not (pk, primary).
C25_PrimaryKeyNameWithIdToken ==
    PrimaryKeyLike =>
       /\ classified.cardinality * 100 = classified.row_count * 95
            => classified.column_type = "identifier"
       /\ (/\ classified.cardinality * 10 = classified.row_count * 2
           /\ classified.cardinality = 50)
            => classified.column_type =
                 IF ContainsAny(classified.column_name,
                                IDENTIFIER_PATTERNS \cup FOREIGN_KEY_PATTERNS)
                   THEN "dimension" ELSE "measure"

\* The classifier was called for link_id bigint with uniqueness 0.95 and
\* answered identifier.
C25_Witness ==
    /\ PrimaryKeyLike
    /\ Contains(classified.column_name, <<"i", "d">>)
    /\ classified.cardinality = 950 /\ classified.row_count = 1000
    /\ classified.column_type = "identifier"

\* The tables of the call whose generation returned True.
Succeeded ==
    {multi.calls[k].table_name : k \in {j \in DOMAIN multi.calls :
        multi.calls[j].outcome \in {"exists", "ok"}}}

\* C26: when generate_metadata_for_all_tables returns for a list of tables,
\* the result has one entry for every requested table, the entry is true
\* exactly for the tables whose generation succeeded, and every requested
\* table was processed, in order, whatever happened to the tables before it.
C26_OneEntryPerTable ==
    (multi.pc = "returned" /\ multi.given) =>
        /\ DOMAIN multi.ret = {multi.table_names[k] : k \in DOMAIN multi.table_names}
        /\ \A t \in DOMAIN multi.ret : multi.ret[t] <=> t \in Succeeded
        /\ Len(multi.calls) = Len(multi.table_names)
        /\ \A k \in DOMAIN multi.calls :
              multi.calls[k].table_name = multi.table_names[k]

\* A call for three tables returned; the first table failed, the second
\* raised, the third succeeded.
C26_Witness ==
    /\ multi.pc = "returned"
    /\ multi.given
    /\ Len(multi.table_names) = 3
    /\ Len(multi.calls) = 3
    /\ multi.calls[1].outcome \in {"no schema", "fails"}
    /\ multi.calls[2].outcome = "escapes"
    /\ multi.calls[3].outcome = "ok"
    /\ multi.ret[multi.table_names[3]]

====
